---- MODULE Spec2Model ----
(***************************************************************************)
(* Model of fsm_mod_n: a generic FSM evaluator (fsm_mod_n/fsm.py) and the  *)
(* mod-N transition synthesizer built on it (fsm_mod_n/mod_n.py).          *)
(*                                                                         *)
(* Characters are modelled by their code points (48 = '0', 49 = '1',       *)
(* 65 = 'A', 83 = 'S'); a Python str is a sequence of code points.  A      *)
(* symbol of an alphabet is a one-character string, modelled by its code   *)
(* point, so that Python's natural order on symbols is < on code points.   *)
(* A state identifier is a str, i.e. a sequence of code points.            *)
(***************************************************************************)
EXTENDS Integers, Sequences, FiniteSets, TLC

\* ---------------------------------------------------------------- bounds
\* longest input string / symbol sequence
MaxLen == 3
\* moduli are drawn from -1..MaxN and BigN (a modulus with two-digit labels)
MaxN == 3
BigN == 11

CharUniverse == {48, 49, 65}
Moduli == (-1 .. MaxN) \cup {BigN}
Alphabets == SUBSET CharUniverse
Strings == UNION {[1..k -> CharUniverse] : k \in 0..MaxLen}

\* ------------------------------------------------------------ error kinds
\* every raise site of the program, named by the kind it signals
InvalidConfiguration == "InvalidConfiguration"
InvalidModulus == "InvalidModulus"
EmptyAlphabet == "EmptyAlphabet"
EmptyInput == "EmptyInput"
InvalidCharacter == "InvalidCharacter"
InvalidSymbol == "InvalidSymbol"
IncompleteTransition == "IncompleteTransition"

\* the Python exception class raised at the site of each kind: the table
\* lookup raises KeyError, every other site raises ValueError
ExcClass(kind) == IF kind = IncompleteTransition THEN "KeyError" ELSE "ValueError"

\* outcome of a call: a returned value or a raised error
Ok(v) == [status |-> "ok", error |-> "", exc |-> "", value |-> v]
Err(kind) == [status |-> "error", error |-> kind, exc |-> ExcClass(kind), value |-> 0]
NoOutcome == [status |-> "none", error |-> "", exc |-> "", value |-> 0]

\* ------------------------------------------------- str / int conversions
RECURSIVE Decimal(_)
\* str(i) for i >= 0: the decimal digits of i, most significant first
Decimal(i) == IF i < 10 THEN <<48 + i>> ELSE Decimal(i \div 10) \o <<48 + (i % 10)>>

\* f"S{i}"
Label(i) == <<83>> \o Decimal(i)

RECURSIVE ParseInt(_)
\* int(text) for a str of decimal digits
ParseInt(text) ==
    IF Len(text) = 0 THEN 0
    ELSE ParseInt(SubSeq(text, 1, Len(text) - 1)) * 10 + (text[Len(text)] - 48)

\* int(final_state[1:])
DecodeState(final_state) == ParseInt(Tail(final_state))

\* ------------------------------------------------------------ fsm.py: FSM
NoFSM == [states |-> {}, alphabet |-> {}, initial_state |-> <<>>,
          final_states |-> {}, transition_function |-> <<>>,
          current_state |-> <<>>]

\* FSM.__init__ without the check of final_states
FSM_init_no_final_check(states, alphabet, initial_state, final_states, transition_function) ==
    IF initial_state \notin states THEN Err(InvalidConfiguration)
    ELSE Ok([states |-> states, alphabet |-> alphabet,
             initial_state |-> initial_state, final_states |-> final_states,
             transition_function |-> transition_function,
             current_state |-> initial_state])

\* FSM.__init__ without the check of initial_state
FSM_init_no_initial_check(states, alphabet, initial_state, final_states, transition_function) ==
    IF ~(final_states \subseteq states) THEN Err(InvalidConfiguration)
    ELSE Ok([states |-> states, alphabet |-> alphabet,
             initial_state |-> initial_state, final_states |-> final_states,
             transition_function |-> transition_function,
             current_state |-> initial_state])

\* FSM.__init__
FSM_init(states, alphabet, initial_state, final_states, transition_function) ==
    IF initial_state \notin states THEN Err(InvalidConfiguration)
    ELSE IF ~(final_states \subseteq states) THEN Err(InvalidConfiguration)
    ELSE Ok([states |-> states, alphabet |-> alphabet,
             initial_state |-> initial_state, final_states |-> final_states,
             transition_function |-> transition_function,
             current_state |-> initial_state])

\* FSM.reset that leaves current_state alone
reset_noop(f) == f

\* FSM.reset that also clears final_states
reset_clearing_final_states(f) ==
    [f EXCEPT !.current_state = f.initial_state, !.final_states = {}]

\* FSM.reset
reset(f) == [f EXCEPT !.current_state = f.initial_state]

\* FSM.transition without the assignment to self.current_state
transition_without_update(f, symbol) ==
    IF symbol \notin f.alphabet THEN Err(InvalidSymbol)
    ELSE IF \/ f.current_state \notin DOMAIN f.transition_function
            \/ symbol \notin DOMAIN f.transition_function[f.current_state]
         THEN Err(IncompleteTransition)
    ELSE Ok(f)

\* FSM.transition without the check of the symbol against the alphabet
transition_unchecked(f, symbol) ==
    IF \/ f.current_state \notin DOMAIN f.transition_function
       \/ symbol \notin DOMAIN f.transition_function[f.current_state]
    THEN Err(IncompleteTransition)
    ELSE Ok([f EXCEPT !.current_state =
                 f.transition_function[f.current_state][symbol]])

\* FSM.transition reporting a missing table entry as an invalid symbol
transition_missing_as_invalid(f, symbol) ==
    IF symbol \notin f.alphabet THEN Err(InvalidSymbol)
    ELSE IF \/ f.current_state \notin DOMAIN f.transition_function
            \/ symbol \notin DOMAIN f.transition_function[f.current_state]
         THEN Err(InvalidSymbol)
    ELSE Ok([f EXCEPT !.current_state =
                 f.transition_function[f.current_state][symbol]])

\* FSM.transition: the outcome carries the instance after the call
transition(f, symbol) ==
    IF symbol \notin f.alphabet THEN Err(InvalidSymbol)
    ELSE IF \/ f.current_state \notin DOMAIN f.transition_function
            \/ symbol \notin DOMAIN f.transition_function[f.current_state]
         THEN Err(IncompleteTransition)
    ELSE Ok([f EXCEPT !.current_state =
                 f.transition_function[f.current_state][symbol]])

\* FSM.is_accepting testing membership in states
is_accepting_any_state(f) == f.current_state \in f.states

\* FSM.is_accepting
is_accepting(f) == f.current_state \in f.final_states

\* ---------------------------------------------------------------- mod_n.py
RECURSIVE sorted_descending(_)
\* sorted(alphabet, reverse=True)
sorted_descending(alphabet) ==
    IF alphabet = {} THEN <<>>
    ELSE LET m == CHOOSE x \in alphabet : \A y \in alphabet : x >= y
         IN  <<m>> \o sorted_descending(alphabet \ {m})

RECURSIVE sorted(_)
\* sorted(alphabet): ascending list of the symbols
sorted(alphabet) ==
    IF alphabet = {} THEN <<>>
    ELSE LET m == CHOOSE x \in alphabet : \A y \in alphabet : x <= y
         IN  <<m>> \o sorted(alphabet \ {m})

\* the mapping with enumerate(sorted_alphabet, 1)
symbol_map_one_based(alphabet) ==
    LET sorted_alphabet == sorted(alphabet)
    IN  [symbol \in alphabet |->
            CHOOSE idx \in 1..Len(sorted_alphabet) : sorted_alphabet[idx] = symbol]

\* {symbol: idx for idx, symbol in enumerate(sorted_alphabet)}
symbol_map(alphabet) ==
    LET sorted_alphabet == sorted(alphabet)
    IN  [symbol \in alphabet |->
            (CHOOSE idx \in 1..Len(sorted_alphabet) : sorted_alphabet[idx] = symbol) - 1]

\* the next state without the radix factor
next_state_additive(i, radix, val, n) == (i + val) % n

\* the next state without the reduction mod n
next_state_unreduced(i, radix, val, n) == i * radix + val

\* the next-state computation of the table loop
next_state(i, radix, val, n) == (i * radix + val) % n

\* the transition table built by the nested loops: the row stored under
\* f'S{i}' is the one computed for residue i
build_table(n, alphabet) ==
    [st \in {Label(i) : i \in 0..(n - 1)} |->
        LET i == CHOOSE j \in 0..(n - 1) : Label(j) = st
        IN  [symbol \in alphabet |->
                Label(next_state(i, Cardinality(alphabet),
                                 symbol_map(alphabet)[symbol], n))]]

\* build_mod_n_fsm with residue 0 as the only final state
build_mod_n_fsm_zero_final(n, alphabet) ==
    IF n <= 0 THEN Err(InvalidModulus)
    ELSE IF alphabet = {} THEN Err(EmptyAlphabet)
    ELSE FSM_init({Label(i) : i \in 0..(n - 1)}, alphabet, Label(0), {Label(0)},
                  build_table(n, alphabet))

\* build_mod_n_fsm that rejects only a negative modulus
build_mod_n_fsm_negative_only(n, alphabet) ==
    IF n < 0 THEN Err(InvalidModulus)
    ELSE IF alphabet = {} THEN Err(EmptyAlphabet)
    ELSE FSM_init({Label(i) : i \in 0..(n - 1)}, alphabet, Label(0),
                  {Label(i) : i \in 0..(n - 1)}, build_table(n, alphabet))

\* build_mod_n_fsm
build_mod_n_fsm(n, alphabet) ==
    IF n <= 0 THEN Err(InvalidModulus)
    ELSE IF alphabet = {} THEN Err(EmptyAlphabet)
    ELSE LET states == {Label(i) : i \in 0..(n - 1)}
             initial_state == Label(0)
             final_states == states
         IN  FSM_init(states, alphabet, initial_state, final_states,
                      build_table(n, alphabet))

\* ------------------------------------------------------------------ state
VARIABLES
    args,      \* the arguments the library functions are called with
    fsm,       \* the FSM instance in use (NoFSM when there is none)
    held,      \* TRUE iff an FSM instance exists
    pc,        \* position of the call in flight: "idle", "reset", "loop"
    op,        \* the function in flight ("none" when idle)
    seq,       \* the sequence FSM.process is iterating over
    pos,       \* index in seq of the next symbol to consume
    cnt,       \* FSMs built, resets and transitions done by the call in flight
    results,   \* outcome of the last completed call of each library function
    last,      \* the latest direct call on the held instance: op, arg, outcome
               \* (outcome "none" while the call is in flight; for process also
               \* whether earlier calls had moved the instance off initial_state)
    shared,    \* concurrent use: TRUE iff the two tasks drive the same instance
    inst,      \* concurrent use: the FSM instances
    task       \* concurrent use: each task's call of FSM.process

vars == <<args, fsm, held, pc, op, seq, pos, cnt, results, last, shared, inst, task>>

\* concurrent tasks, each calling fsm.process once
Tasks == {1, 2}
NoTask == [pc |-> "none", seq |-> <<>>, pos |-> 1, ret |-> <<>>,
           interfered |-> FALSE]

APIOps == {"remainder", "binary", "accepts", "build"}
ZeroCnt == [built |-> 0, resets |-> 0, steps |-> 0]
NoResult == [outcome |-> NoOutcome, cnt |-> ZeroCnt]
NoLast == [op |-> "none", arg |-> <<>>, outcome |-> NoOutcome, cnt |-> ZeroCnt]
NoArgs == [input_string |-> <<>>, n |-> 1, alphabet |-> {}]

Idle ==
    /\ pc' = "idle"
    /\ op' = "none"
    /\ seq' = <<>>
    /\ pos' = 1
    /\ cnt' = ZeroCnt

\* a library function returns or raises: its local FSM goes out of scope
Finish(opname, outcome, c) ==
    /\ results' = [results EXCEPT ![opname] = [outcome |-> outcome, cnt |-> c]]
    /\ fsm' = NoFSM
    /\ held' = FALSE
    /\ Idle
    /\ UNCHANGED <<shared, inst, task, args, last>>

\* fsm.process without its call of self.reset()
EnterProcess_no_reset(opname, f, input_string, c) ==
    /\ fsm' = f
    /\ held' = TRUE
    /\ pc' = "loop"
    /\ op' = opname
    /\ seq' = input_string
    /\ pos' = 1
    /\ cnt' = c

\* fsm.process(input_string) is entered on the instance f
EnterProcess(opname, f, input_string, c) ==
    /\ fsm' = f
    /\ held' = TRUE
    /\ pc' = "reset"
    /\ op' = opname
    /\ seq' = input_string
    /\ pos' = 1
    /\ cnt' = c

\* the emptiness check left out
input_is_empty_unchecked(input_string) == FALSE

\* "not input_string"
input_is_empty(input_string) == input_string = <<>>

\* only the first character is checked
first_character_invalid(input_string, alphabet) ==
    Len(input_string) >= 1 /\ input_string[1] \notin alphabet

\* "any(ch not in alphabet for ch in input_string)"
has_invalid_character(input_string, alphabet) ==
    \E k \in 1..Len(input_string) : input_string[k] \notin alphabet

\* the body with the FSM built before the characters are checked
RemainderBody_build_first(opname, input_string, n, alphabet) ==
    /\ pc = "idle"
    /\ IF input_is_empty(input_string)
       THEN Finish(opname, Err(EmptyInput), ZeroCnt)
       ELSE LET b == build_mod_n_fsm(n, alphabet)
            IN  IF b.status = "error"
                THEN Finish(opname, b, ZeroCnt)
                ELSE IF has_invalid_character(input_string, alphabet)
                THEN Finish(opname, Err(InvalidCharacter), ZeroCnt)
                ELSE /\ EnterProcess(opname, b.value, input_string,
                                     [ZeroCnt EXCEPT !.built = 1])
                     /\ UNCHANGED <<shared, inst, task, args, results, last>>

\* body of mod_n_remainder_custom_alphabet up to the call of fsm.process
RemainderBody(opname, input_string, n, alphabet) ==
    /\ pc = "idle"
    /\ IF input_is_empty(input_string)
       THEN Finish(opname, Err(EmptyInput), ZeroCnt)
       ELSE IF has_invalid_character(input_string, alphabet)
       THEN Finish(opname, Err(InvalidCharacter), ZeroCnt)
       ELSE LET b == build_mod_n_fsm(n, alphabet)
            IN  IF b.status = "error"
                THEN Finish(opname, b, ZeroCnt)
                ELSE /\ EnterProcess(opname, b.value, input_string,
                                     [ZeroCnt EXCEPT !.built = 1])
                     /\ UNCHANGED <<shared, inst, task, args, results, last>>

\* mod_n_remainder_custom_alphabet(input_string, n, alphabet)
mod_n_remainder_custom_alphabet ==
    RemainderBody("remainder", args.input_string, args.n, args.alphabet)

\* the alphabet {'0', '1'} of mod_n_remainder
BinaryAlphabet == {48, 49}

\* mod_n_remainder(binary_string, n)
mod_n_remainder ==
    RemainderBody("binary", args.input_string, args.n, BinaryAlphabet)

\* mod_n_accepts(input_string, n, alphabet) up to the call of fsm.process
mod_n_accepts ==
    /\ pc = "idle"
    /\ LET b == build_mod_n_fsm(args.n, args.alphabet)
       IN  IF b.status = "error"
           THEN Finish("accepts", b, ZeroCnt)
           ELSE /\ EnterProcess("accepts", b.value, args.input_string,
                                [ZeroCnt EXCEPT !.built = 1])
                /\ UNCHANGED <<shared, inst, task, args, results, last>>

\* a direct call build_mod_n_fsm(n, alphabet); the result is the instance
BuildFSM ==
    /\ pc = "idle"
    /\ LET b == build_mod_n_fsm(args.n, args.alphabet)
       IN  results' = [results EXCEPT !["build"] =
                 [outcome |-> b,
                  cnt |-> [ZeroCnt EXCEPT !.built = IF b.status = "ok" THEN 1 ELSE 0]]]
    /\ UNCHANGED <<shared, inst, task, args, fsm, held, pc, op, seq, pos, cnt, last>>

\* the call in flight ends: a library function hands its outcome to its
\* caller, a direct call on the held instance leaves the instance f behind
Complete(f, outcome, c) ==
    IF op \in APIOps
    THEN Finish(op, outcome, c)
    ELSE /\ last' = [last EXCEPT !.outcome = outcome, !.cnt = c]
         /\ fsm' = f
         /\ Idle
         /\ UNCHANGED <<shared, inst, task, args, held, results>>

\* FSM.process: self.reset()
ProcessReset ==
    /\ pc = "reset"
    /\ fsm' = reset(fsm)
    /\ pc' = "loop"
    /\ cnt' = [cnt EXCEPT !.resets = @ + 1]
    /\ UNCHANGED <<shared, inst, task, args, held, op, seq, pos, results, last>>

\* FSM.process with a loop that resets the instance when a transition raises
ProcessTransition_reset_on_failure ==
    /\ pc = "loop"
    /\ pos <= Len(seq)
    /\ LET t == transition(fsm, seq[pos])
       IN  IF t.status = "error"
           THEN Complete(reset(fsm), t, cnt)
           ELSE /\ fsm' = t.value
                /\ pos' = pos + 1
                /\ cnt' = [cnt EXCEPT !.steps = @ + 1]
                /\ UNCHANGED <<shared, inst, task, args, held, pc, op, seq, results, last>>

\* FSM.process: one iteration of the loop, self.transition(symbol)
ProcessTransition ==
    /\ pc = "loop"
    /\ pos <= Len(seq)
    /\ LET t == transition(fsm, seq[pos])
       IN  IF t.status = "error"
           THEN Complete(fsm, t, cnt)
           ELSE /\ fsm' = t.value
                /\ pos' = pos + 1
                /\ cnt' = [cnt EXCEPT !.steps = @ + 1]
                /\ UNCHANGED <<shared, inst, task, args, held, pc, op, seq, results, last>>

\* what the caller of fsm.process does with the returned state
Continuation(f) ==
    IF op \in {"remainder", "binary"} THEN Ok(DecodeState(f.current_state))
    ELSE IF op = "accepts" THEN Ok(is_accepting(f))
    ELSE Ok(f.current_state)

\* FSM.process: the loop is over, return self.current_state
ProcessReturn ==
    /\ pc = "loop"
    /\ pos > Len(seq)
    /\ Complete(fsm, Continuation(fsm), cnt)

\* ------------------------------------------- direct use of the evaluator
\* arguments a caller constructs an FSM with: state identifiers "S0", "S1",
\* symbols '0', '1', and tables that may lack rows or entries
GenStates == {Label(0), Label(1)}
GenSymbols == {48, 49}
GenRows == UNION {[d -> GenStates] : d \in SUBSET {48}}
GenTables == UNION {[d -> GenRows] : d \in SUBSET GenStates}
SynthModuli == -1 .. MaxN

\* FSM(states, alphabet, initial_state, final_states, transition_function):
\* the caller's one attempt to obtain the instance it then drives
Construct ==
    /\ pc = "idle"
    /\ ~held
    /\ last.op = "none"
    /\ \E states \in SUBSET GenStates, alphabet \in SUBSET GenSymbols,
          initial_state \in GenStates, final_states \in SUBSET GenStates,
          transition_function \in GenTables :
          LET c == FSM_init(states, alphabet, initial_state, final_states,
                            transition_function)
          IN  /\ last' = [op |-> "construct",
                          arg |-> [states |-> states, alphabet |-> alphabet,
                                   initial_state |-> initial_state,
                                   final_states |-> final_states,
                                   transition_function |-> transition_function],
                          outcome |-> c,
                          cnt |-> [ZeroCnt EXCEPT !.built =
                                       IF c.status = "ok" THEN 1 ELSE 0]]
              /\ fsm' = IF c.status = "ok" THEN c.value ELSE fsm
              /\ held' = (c.status = "ok")
    /\ UNCHANGED <<shared, inst, task, args, pc, op, seq, pos, cnt, results>>

\* fsm = build_mod_n_fsm(n, alphabet), the instance kept by the caller
Build ==
    /\ pc = "idle"
    /\ ~held
    /\ last.op = "none"
    /\ \E n \in SynthModuli, alphabet \in Alphabets :
          LET b == build_mod_n_fsm(n, alphabet)
          IN  /\ last' = [op |-> "build", arg |-> [n |-> n, alphabet |-> alphabet],
                          outcome |-> b,
                          cnt |-> [ZeroCnt EXCEPT !.built =
                                       IF b.status = "ok" THEN 1 ELSE 0]]
              /\ fsm' = IF b.status = "ok" THEN b.value ELSE fsm
              /\ held' = (b.status = "ok")
    /\ UNCHANGED <<shared, inst, task, args, pc, op, seq, pos, cnt, results>>

\* fsm.reset()
Reset ==
    /\ pc = "idle"
    /\ held
    /\ fsm' = reset(fsm)
    /\ last' = [op |-> "reset", arg |-> <<>>, outcome |-> Ok("None"),
                cnt |-> [ZeroCnt EXCEPT !.resets = 1]]
    /\ UNCHANGED <<shared, inst, task, args, held, pc, op, seq, pos, cnt, results>>

\* fsm.transition(symbol)
Transition ==
    /\ pc = "idle"
    /\ held
    /\ \E symbol \in CharUniverse :
          LET t == transition(fsm, symbol)
          IN  IF t.status = "error"
              THEN /\ last' = [op |-> "transition", arg |-> <<symbol>>,
                               outcome |-> t, cnt |-> ZeroCnt]
                   /\ fsm' = fsm
              ELSE /\ last' = [op |-> "transition", arg |-> <<symbol>>,
                               outcome |-> Ok("None"),
                               cnt |-> [ZeroCnt EXCEPT !.steps = 1]]
                   /\ fsm' = t.value
    /\ UNCHANGED <<shared, inst, task, args, held, pc, op, seq, pos, cnt, results>>

\* fsm.process(input_sequence) is called on the held instance
Process ==
    /\ pc = "idle"
    /\ held
    /\ \E input_sequence \in Strings :
          /\ EnterProcess("process", fsm, input_sequence, ZeroCnt)
          /\ last' = [op |-> "process", arg |-> input_sequence,
                      outcome |-> NoOutcome, cnt |-> ZeroCnt,
                      reused |-> (fsm.current_state # fsm.initial_state)]
    /\ UNCHANGED <<shared, inst, task, args, results>>

\* fsm.is_accepting()
IsAccepting ==
    /\ pc = "idle"
    /\ held
    /\ last' = [op |-> "is_accepting", arg |-> <<>>,
                outcome |-> Ok(is_accepting(fsm)), cnt |-> ZeroCnt]
    /\ UNCHANGED <<shared, inst, task, args, fsm, held, pc, op, seq, pos, cnt, results>>

\* fsm.final_states = F, the caller's assignment to the attribute
SetFinalStates ==
    /\ pc = "idle"
    /\ held
    /\ \E F \in SUBSET fsm.states :
          /\ fsm' = [fsm EXCEPT !.final_states = F]
          /\ last' = [op |-> "set_final_states", arg |-> F, outcome |-> Ok("None"),
                      cnt |-> ZeroCnt]
    /\ UNCHANGED <<shared, inst, task, args, held, pc, op, seq, pos, cnt, results>>

Init ==
    /\ args \in [input_string : Strings, n : Moduli, alphabet : Alphabets]
    /\ fsm = NoFSM
    /\ held = FALSE
    /\ pc = "idle"
    /\ op = "none"
    /\ seq = <<>>
    /\ pos = 1
    /\ cnt = ZeroCnt
    /\ results = [o \in APIOps |-> NoResult]
    /\ last = NoLast
    /\ shared = FALSE
    /\ inst = [i \in Tasks |-> NoFSM]
    /\ task = [t \in Tasks |-> NoTask]

Next ==
    \/ mod_n_remainder_custom_alphabet
    \/ mod_n_remainder
    \/ mod_n_accepts
    \/ BuildFSM
    \/ ProcessReset
    \/ ProcessTransition
    \/ ProcessReturn

Spec == Init /\ [][Next]_vars

\* the library functions with the call in flight running on: FSM.process is
\* a sequential loop of one thread, each of its steps is taken once enabled
SpecLive ==
    /\ Spec
    /\ WF_vars(ProcessReset)
    /\ WF_vars(ProcessTransition)
    /\ WF_vars(ProcessReturn)

\* a caller that constructs one FSM instance and drives it directly
InitFSM ==
    /\ args = NoArgs
    /\ fsm = NoFSM
    /\ held = FALSE
    /\ pc = "idle"
    /\ op = "none"
    /\ seq = <<>>
    /\ pos = 1
    /\ cnt = ZeroCnt
    /\ results = [o \in APIOps |-> NoResult]
    /\ last = NoLast
    /\ shared = FALSE
    /\ inst = [i \in Tasks |-> NoFSM]
    /\ task = [t \in Tasks |-> NoTask]

NextFSM ==
    \/ Construct
    \/ Build
    \/ Reset
    \/ Transition
    \/ Process
    \/ IsAccepting
    \/ SetFinalStates
    \/ ProcessReset
    \/ ProcessTransition
    \/ ProcessReturn

SpecFSM == InitFSM /\ [][NextFSM]_vars

\* --------------------------------------------- concurrent use of process
\* sequences the concurrent tasks process: strings over {'0', '1'}
BinaryStrings == UNION {[1..k -> BinaryAlphabet] : k \in 0..MaxLen}

\* index of the instance task t calls process on
InstOf(t) == IF shared THEN 1 ELSE t

\* the other task took a step on the instance a call of task t is using
Interfere(t, f) ==
    [u \in Tasks |->
        IF u # t /\ InstOf(u) = InstOf(t) /\ task[u].pc = "loop"
        THEN [task[u] EXCEPT !.interfered = TRUE]
        ELSE IF u = t THEN f ELSE task[u]]

\* task t, FSM.process: self.reset()
TaskReset(t) ==
    /\ task[t].pc = "reset"
    /\ inst' = [inst EXCEPT ![InstOf(t)] = reset(@)]
    /\ task' = Interfere(t, [task[t] EXCEPT !.pc = "loop"])
    /\ UNCHANGED <<args, fsm, held, pc, op, seq, pos, cnt, results, last, shared>>

\* task t, FSM.process: one iteration of the loop, self.transition(symbol)
TaskTransition(t) ==
    /\ task[t].pc = "loop"
    /\ task[t].pos <= Len(task[t].seq)
    /\ LET tr == transition(inst[InstOf(t)], task[t].seq[task[t].pos])
       IN  IF tr.status = "error"
           THEN /\ task' = [task EXCEPT ![t].pc = "raised"]
                /\ inst' = inst
           ELSE /\ inst' = [inst EXCEPT ![InstOf(t)] = tr.value]
                /\ task' = Interfere(t, [task[t] EXCEPT !.pos = @ + 1])
    /\ UNCHANGED <<args, fsm, held, pc, op, seq, pos, cnt, results, last, shared>>

\* task t, FSM.process: return self.current_state
TaskReturn(t) ==
    /\ task[t].pc = "loop"
    /\ task[t].pos > Len(task[t].seq)
    /\ task' = [task EXCEPT ![t].pc = "done",
                            ![t].ret = inst[InstOf(t)].current_state]
    /\ UNCHANGED <<args, fsm, held, pc, op, seq, pos, cnt, results, last, shared, inst>>

\* two tasks call process, on one synthesized instance or on one each
InitConc ==
    /\ args = NoArgs
    /\ fsm = NoFSM
    /\ held = FALSE
    /\ pc = "idle"
    /\ op = "none"
    /\ seq = <<>>
    /\ pos = 1
    /\ cnt = ZeroCnt
    /\ results = [o \in APIOps |-> NoResult]
    /\ last = NoLast
    /\ shared \in BOOLEAN
    /\ \E n \in 1..MaxN :
          inst = [i \in Tasks |-> build_mod_n_fsm(n, BinaryAlphabet).value]
    /\ task \in [Tasks -> {[NoTask EXCEPT !.pc = "reset", !.seq = s] :
                              s \in BinaryStrings}]

NextConc ==
    \E t \in Tasks :
        \/ TaskReset(t)
        \/ TaskTransition(t)
        \/ TaskReturn(t)

SpecConc == InitConc /\ [][NextConc]_vars

\* ================================================================ claims
\* outcome of the last completed call of the library function o
R(o) == results[o].outcome

RECURSIVE TableFold(_, _)
\* the state reached by applying the table of f to the symbols of s in order,
\* starting from initial_state
\* (<<>>, which is no state, where the table has no entry on the way)
TableFold(f, s) ==
    IF s = <<>> THEN f.initial_state
    ELSE LET prev == TableFold(f, SubSeq(s, 1, Len(s) - 1))
             a == s[Len(s)]
         IN  IF /\ prev \in DOMAIN f.transition_function
                /\ a \in DOMAIN f.transition_function[prev]
             THEN f.transition_function[prev][a]
             ELSE <<>>

\* digit value of a symbol: the number of symbols of the alphabet below it
Rank(c, A) == Cardinality({x \in A : x < c})

RECURSIVE Power(_, _)
Power(b, e) == IF e = 0 THEN 1 ELSE b * Power(b, e - 1)

RECURSIVE NumeralValue(_, _)
\* the string read left to right as a numeral in base |A|
NumeralValue(s, A) ==
    IF s = <<>> THEN 0
    ELSE Rank(Head(s), A) * Power(Cardinality(A), Len(s) - 1)
         + NumeralValue(Tail(s), A)

\* a modulus, an alphabet and an input the remainder is defined for
ValidInput(s, n, A) ==
    /\ n >= 1
    /\ A # {}
    /\ s # <<>>
    /\ \A k \in 1..Len(s) : s[k] \in A

\* the alphabet each remainder function works with
AlphabetOf(o) == IF o = "binary" THEN BinaryAlphabet ELSE args.alphabet

RemainderOps == {"remainder", "binary"}

\* C1: for n >= 1, a non-empty alphabet A and a non-empty string s over A,
\* mod_n_remainder_custom_alphabet(s, n, A) returns the base-|A| value of s
\* (digit = rank in the sorted alphabet) mod n, and mod_n_remainder(s, n)
\* returns the binary value of s mod n.
C1_RemainderIsValueModN ==
    \A o \in RemainderOps :
        (R(o).status # "none" /\ ValidInput(args.input_string, args.n, AlphabetOf(o)))
        => /\ R(o).status = "ok"
           /\ R(o).value = NumeralValue(args.input_string, AlphabetOf(o)) % args.n

C1_Witness ==
    /\ R("remainder").status = "ok"
    /\ R("binary").status = "ok"
    /\ Cardinality(args.alphabet) = 3
    /\ NumeralValue(args.input_string, args.alphabet) > args.n
    /\ R("remainder").value # R("binary").value
    /\ R("remainder").value # 0

\* the residue states of modulus n
ResidueStates(n) == {Label(i) : i \in 0..(n - 1)}

\* C2: for n >= 1 and a non-empty alphabet A, the table of the FSM returned
\* by build_mod_n_fsm(n, A) is total: a row for each residue state 0..n-1,
\* in each row an entry for each symbol of A and for no other symbol, each
\* entry a residue state, equal to (i * |A| + v) mod n.
C2_TableIsTotal ==
    (R("build").status # "none" /\ args.n >= 1 /\ args.alphabet # {})
    => /\ R("build").status = "ok"
       /\ LET f == R("build").value
              A == args.alphabet
          IN  /\ DOMAIN f.transition_function = ResidueStates(args.n)
              /\ \A i \in 0..(args.n - 1) :
                    /\ DOMAIN f.transition_function[Label(i)] = A
                    /\ \A a \in A :
                          /\ f.transition_function[Label(i)][a] \in f.states
                          /\ f.transition_function[Label(i)][a] \in ResidueStates(args.n)
                          /\ f.transition_function[Label(i)][a]
                                = Label((i * Cardinality(A) + Rank(a, A)) % args.n)

C2_Witness ==
    /\ R("build").status = "ok"
    /\ args.n = BigN
    /\ Cardinality(args.alphabet) = 3

\* C3: whenever mod_n_remainder_custom_alphabet(s, n, A) succeeds,
\* mod_n_accepts(s, n, A) returns True; every state of the FSM it builds
\* is final.
C3_AcceptsWhenRemainderSucceeds ==
    /\ (R("remainder").status = "ok" /\ R("accepts").status # "none")
       => (R("accepts").status = "ok" /\ R("accepts").value = TRUE)
    /\ (op = "accepts" /\ pc # "idle") => fsm.final_states = fsm.states

C3_Witness ==
    /\ R("remainder").status = "ok"
    /\ R("remainder").value # 0
    /\ R("accepts").status = "ok"
    /\ results["accepts"].cnt.steps >= 2

\* C4: on every input on which mod_n_remainder_custom_alphabet fails,
\* mod_n_accepts fails with the same error kind and returns no boolean.
C4_AcceptsPropagatesSameErrors ==
    (R("remainder").status = "error" /\ R("accepts").status # "none")
    => /\ R("accepts").status = "error"
       /\ R("accepts").error = R("remainder").error

\* C5: with the empty input string the remainder functions fail with
\* EmptyInput for any modulus and any alphabet, including a modulus <= 0
\* and an empty alphabet, and no FSM is built, reset or stepped.
C5_EmptyInputFails ==
    /\ \A o \in RemainderOps :
          (R(o).status # "none" /\ args.input_string = <<>>)
          => /\ R(o).status = "error"
             /\ R(o).error = EmptyInput
             /\ results[o].cnt = ZeroCnt
    /\ (op \in RemainderOps) => args.input_string # <<>>

C5_Witness ==
    /\ args.input_string = <<>>
    /\ args.n <= 0
    /\ args.alphabet = {}
    /\ R("remainder").status = "error"
    /\ R("binary").status = "error"

\* C6: with a non-empty input string that contains a character outside the
\* alphabet, wherever it occurs, the remainder functions fail with
\* InvalidCharacter and return no remainder.
C6_InvalidCharacterFails ==
    \A o \in RemainderOps :
        (/\ R(o).status # "none"
         /\ args.input_string # <<>>
         /\ \E k \in 1..Len(args.input_string) :
               args.input_string[k] \notin AlphabetOf(o))
        => /\ R(o).status = "error"
           /\ R(o).error = InvalidCharacter

C6_Witness ==
    /\ R("remainder").status = "error"
    /\ R("remainder").error = InvalidCharacter
    /\ args.n >= 1
    /\ Len(args.input_string) >= 2
    /\ \A k \in 1..(Len(args.input_string) - 1) :
          args.input_string[k] \in args.alphabet
    /\ args.input_string[Len(args.input_string)] \notin args.alphabet

\* C7: build_mod_n_fsm(n, alphabet) fails with InvalidModulus when n <= 0,
\* with EmptyAlphabet when n >= 1 and the alphabet is empty, and otherwise
\* returns an FSM with exactly n states, initial state residue 0 ("S0") and
\* all states final.
C7_BuildOutcome ==
    (R("build").status # "none")
    => /\ (args.n <= 0)
          => (R("build").status = "error" /\ R("build").error = InvalidModulus)
       /\ (args.n >= 1 /\ args.alphabet = {})
          => (R("build").status = "error" /\ R("build").error = EmptyAlphabet)
       /\ (args.n >= 1 /\ args.alphabet # {})
          => /\ R("build").status = "ok"
             /\ Cardinality(R("build").value.states) = args.n
             /\ R("build").value.initial_state = <<83, 48>>
             /\ DecodeState(R("build").value.initial_state) = 0
             /\ R("build").value.final_states = R("build").value.states
             /\ R("build").value.current_state = R("build").value.initial_state

C7_Witness ==
    /\ R("build").status = "ok"
    /\ args.n = BigN
    /\ Cardinality(R("build").value.states) = BigN
    /\ Cardinality(args.alphabet) = 1

\* C8: constructing an FSM fails with InvalidConfiguration exactly when
\* initial_state is not in states or final_states is not a subset of states;
\* otherwise it succeeds, whatever the transition table holds, and sets
\* current_state to initial_state.
C8_ConstructOutcome ==
    (last.op = "construct")
    => LET a == last.arg
           bad == \/ a.initial_state \notin a.states
                  \/ \E s \in a.final_states : s \notin a.states
       IN  /\ bad => /\ last.outcome.status = "error"
                     /\ last.outcome.error = InvalidConfiguration
                     /\ ~held
           /\ ~bad => /\ last.outcome.status = "ok"
                      /\ held
                      /\ fsm.current_state = a.initial_state
                      /\ fsm.initial_state = a.initial_state
                      /\ fsm.states = a.states
                      /\ fsm.final_states = a.final_states
                      /\ fsm.alphabet = a.alphabet
                      /\ fsm.transition_function = a.transition_function

C8_Witness ==
    /\ last.op = "construct"
    /\ last.outcome.status = "ok"
    /\ held
    /\ last.arg.alphabet = GenSymbols
    /\ DOMAIN last.arg.transition_function = {}
    /\ last.arg.final_states # last.arg.states
    /\ fsm.current_state = Label(1)

\* C9: with modulus 1 the remainder functions return 0 for every valid
\* non-empty input over every non-empty alphabet; the synthesized FSM has
\* the single state "S0" and every transition is a self-loop on it.
C9_ModulusOne ==
    /\ \A o \in RemainderOps :
          (/\ R(o).status # "none"
           /\ args.n = 1
           /\ ValidInput(args.input_string, args.n, AlphabetOf(o)))
          => (R(o).status = "ok" /\ R(o).value = 0)
    /\ (R("build").status # "none" /\ args.n = 1 /\ args.alphabet # {})
       => /\ R("build").status = "ok"
          /\ R("build").value.states = {Label(0)}
          /\ \A a \in args.alphabet :
                R("build").value.transition_function[Label(0)][a] = Label(0)

C9_Witness ==
    /\ args.n = 1
    /\ R("remainder").status = "ok"
    /\ R("build").status = "ok"
    /\ results["remainder"].cnt.steps >= 2
    /\ Rank(args.input_string[Len(args.input_string)], args.alphabet) > 0

\* C10: with a single-symbol alphabet mod_n_remainder_custom_alphabet
\* returns 0 for every modulus n >= 1 and every non-empty input; the current
\* state is residue 0 ("S0") after the reset and after every transition.
C10_SingleSymbol ==
    /\ (/\ R("remainder").status # "none"
        /\ Cardinality(args.alphabet) = 1
        /\ ValidInput(args.input_string, args.n, args.alphabet))
       => (R("remainder").status = "ok" /\ R("remainder").value = 0)
    /\ (op = "remainder" /\ Cardinality(args.alphabet) = 1 /\ pc = "loop")
       => fsm.current_state = Label(0)

C10_Witness ==
    /\ Cardinality(args.alphabet) = 1
    /\ args.n >= 2
    /\ R("remainder").status = "ok"
    /\ results["remainder"].cnt.steps = Len(args.input_string)
    /\ Len(args.input_string) >= 2

\* C11: two process calls interleaved on the same instance can return a state
\* other than the one the call returns when run alone; a call that no other
\* task's step on the same instance falls into (the tasks have an instance
\* each, or the caller serializes them) returns the state it returns alone.
C11_UndisturbedCallsAgree ==
    \A t \in Tasks :
        /\ (task[t].pc = "done" /\ ~task[t].interfered)
           => task[t].ret = TableFold(inst[InstOf(t)], task[t].seq)
        /\ ~shared => ~task[t].interfered

C11_Witness ==
    /\ shared
    /\ task[1].pc = "done"
    /\ task[2].pc = "done"
    /\ task[1].interfered
    /\ task[1].ret # TableFold(inst[1], task[1].seq)
    /\ task[2].ret = TableFold(inst[1], task[2].seq)

\* every character of s is a symbol of A
OverAlphabet(s, A) == \A k \in 1..Len(s) : s[k] \in A

ProcessOps == {"remainder", "binary", "accepts"}

\* C12: process on a string of length L over the alphabet of a synthesized
\* FSM terminates after exactly one reset followed by exactly L transitions,
\* one per symbol from left to right.
C12_ProcessStepCount ==
    /\ [](/\ (pc = "reset") => (cnt.resets = 0 /\ cnt.steps = 0 /\ pos = 1)
          /\ (pc = "loop") => /\ cnt.resets = 1
                              /\ cnt.steps = pos - 1
                              /\ pos <= Len(seq) + 1
          /\ \A o \in ProcessOps :
                (/\ R(o).status # "none"
                 /\ args.n >= 1
                 /\ AlphabetOf(o) # {}
                 /\ OverAlphabet(args.input_string, AlphabetOf(o))
                 /\ o \in RemainderOps => args.input_string # <<>>)
                => /\ R(o).status = "ok"
                   /\ results[o].cnt.resets = 1
                   /\ results[o].cnt.steps = Len(args.input_string))
    /\ [][(pc = "loop" /\ pc' = "loop")
            => /\ pos' = pos + 1
               /\ seq' = seq
               /\ fsm'.current_state =
                     fsm.transition_function[fsm.current_state][seq[pos]]]_vars
    /\ (pc # "idle") ~> (pc = "idle")

C12_Witness ==
    /\ R("accepts").status = "ok"
    /\ Len(args.input_string) >= 3
    /\ args.n = BigN
    /\ results["accepts"].cnt.resets = 1
    /\ results["accepts"].cnt.steps = Len(args.input_string)

\* every entry of the transition table of f is a member of its states
TableClosed(f) ==
    \A s \in DOMAIN f.transition_function :
        \A a \in DOMAIN f.transition_function[s] :
            f.transition_function[s][a] \in f.states

\* C13 as stated: for every FSM that passed construction, current_state is a
\* member of states after construction and after any sequence of reset,
\* transition and process calls, successful or failed.
C13_CurrentStateInStates ==
    held => fsm.current_state \in fsm.states

\* C13 as amended: for every FSM that passed construction and whose table
\* entries are all members of states, current_state is a member of states
\* after construction and after any sequence of reset, transition and
\* process calls, successful or failed.
C13_CurrentStateInStatesIfClosed ==
    (held /\ TableClosed(fsm)) => fsm.current_state \in fsm.states

C13_Witness ==
    /\ held
    /\ TableClosed(fsm)
    /\ last.op = "process"
    /\ last.outcome.status = "error"
    /\ last.cnt.steps >= 1
    /\ fsm.current_state # fsm.initial_state
    /\ fsm.final_states # fsm.states

\* C14: an instance is safe to reuse: whatever reset, transition and process
\* calls, successful or failed, were made on it before, process(s) returns
\* the state obtained by applying the table to the symbols of s in order
\* from initial_state (initial_state itself for the empty sequence), and it
\* raises only where a symbol is outside the alphabet or the table has no
\* entry; so equal calls give equal results.
C14_ProcessIsTableFold ==
    (last.op = "process")
    => /\ (last.outcome.status = "ok")
          => /\ last.outcome.value = TableFold(fsm, last.arg)
             /\ last.arg = <<>> => last.outcome.value = fsm.initial_state
       /\ (last.outcome.status = "error")
          => \/ ~OverAlphabet(last.arg, fsm.alphabet)
             \/ TableFold(fsm, last.arg) = <<>>

C14_Witness ==
    /\ last.op = "process"
    /\ last.reused
    /\ last.outcome.status = "ok"
    /\ Len(last.arg) >= 2
    /\ last.outcome.value # fsm.initial_state
    /\ fsm.final_states # fsm.states

\* the step is a direct call fsm.transition(a)
DirectTransition(a) ==
    /\ pc = "idle"
    /\ pc' = "idle"
    /\ held
    /\ last'.op = "transition"
    /\ last'.arg = <<a>>

\* the step is the call self.transition(seq[pos]) made by a running process
LoopTransition ==
    /\ pc = "loop"
    /\ pos <= Len(seq)
    /\ vars' # vars

\* the table of f has an entry for its current state and the symbol a
HasEntry(f, a) ==
    /\ f.current_state \in DOMAIN f.transition_function
    /\ a \in DOMAIN f.transition_function[f.current_state]

\* C15: transition(symbol) with a symbol outside the alphabet fails with
\* InvalidSymbol and leaves current_state unchanged; current_state is changed
\* only by a successful transition, to the looked-up table value, or by reset.
C15_InvalidSymbolKeepsState ==
    [][/\ \A a \in CharUniverse :
            (DirectTransition(a) /\ a \notin fsm.alphabet)
            => /\ last'.outcome.status = "error"
               /\ last'.outcome.error = InvalidSymbol
               /\ fsm' = fsm
       /\ (LoopTransition /\ seq[pos] \notin fsm.alphabet)
          => /\ pc' = "idle"
             /\ last'.outcome.status = "error"
             /\ last'.outcome.error = InvalidSymbol
             /\ fsm' = fsm
       /\ (held /\ fsm'.current_state # fsm.current_state)
          => \/ /\ last'.op = "reset" \/ pc = "reset"
                /\ fsm'.current_state = fsm.initial_state
             \/ \E a \in fsm.alphabet :
                   /\ DirectTransition(a) \/ (LoopTransition /\ seq[pos] = a)
                   /\ HasEntry(fsm, a)
                   /\ last'.outcome.status # "error"
                   /\ fsm'.current_state =
                         fsm.transition_function[fsm.current_state][a]]_vars

C15_Witness ==
    /\ held
    /\ last.op = "transition"
    /\ last.outcome.status = "error"
    /\ last.outcome.error = InvalidSymbol
    /\ last.arg[1] \notin fsm.alphabet
    /\ fsm.alphabet # {}
    /\ fsm.current_state # fsm.initial_state

\* f is an instance returned by build_mod_n_fsm, in whatever current state
Synthesized(f) ==
    \E n \in 1..MaxN, A \in Alphabets \ {{}} :
        LET b == build_mod_n_fsm(n, A)
        IN  /\ b.status = "ok"
            /\ [reset(f) EXCEPT !.final_states = b.value.final_states] = b.value

\* C16: transition(symbol) with a symbol of the alphabet for which the table
\* has no entry under current_state fails with IncompleteTransition, a kind
\* (and exception class) other than that of InvalidSymbol, and leaves
\* current_state unchanged; no FSM built by build_mod_n_fsm reaches this
\* failure.
C16_MissingEntryFails ==
    /\ [][/\ \A a \in CharUniverse :
               (DirectTransition(a) /\ a \in fsm.alphabet /\ ~HasEntry(fsm, a))
               => /\ last'.outcome.status = "error"
                  /\ last'.outcome.error = IncompleteTransition
                  /\ last'.outcome.error # InvalidSymbol
                  /\ last'.outcome.exc # ExcClass(InvalidSymbol)
                  /\ fsm' = fsm
          /\ (LoopTransition /\ seq[pos] \in fsm.alphabet /\ ~HasEntry(fsm, seq[pos]))
             => /\ pc' = "idle"
                /\ last'.outcome.status = "error"
                /\ last'.outcome.error = IncompleteTransition
                /\ last'.outcome.exc # ExcClass(InvalidSymbol)
                /\ fsm' = fsm]_vars
    /\ []((held /\ Synthesized(fsm))
          => /\ \A a \in fsm.alphabet : HasEntry(fsm, a)
             /\ last.outcome.error # IncompleteTransition)

C16_Witness ==
    /\ held
    /\ last.op = "transition"
    /\ last.outcome.status = "error"
    /\ last.outcome.error = IncompleteTransition
    /\ last.outcome.exc = "KeyError"
    /\ last.arg[1] \in fsm.alphabet
    /\ fsm.current_state # fsm.initial_state

\* C17: final_states only gates is_accepting: assigning another final_states
\* to a synthesized FSM changes no transition and not the state process
\* returns, and with final_states narrowed to {"S0"} is_accepting after
\* process(s) is true exactly when the value of s is divisible by n.
C17_FinalStatesOnlyGateAccepting ==
    /\ [][(last'.op = "set_final_states" /\ pc = "idle" /\ held)
            => fsm' = [fsm EXCEPT !.final_states = fsm'.final_states]]_vars
    /\ []((held /\ Synthesized(fsm))
          => LET n == Cardinality(fsm.states)
             IN  /\ \A F \in SUBSET fsm.states, a \in CharUniverse :
                       LET t1 == transition(fsm, a)
                           t2 == transition([fsm EXCEPT !.final_states = F], a)
                       IN  /\ t1.status = t2.status
                           /\ t1.error = t2.error
                           /\ t1.status = "ok"
                              => t1.value.current_state = t2.value.current_state
                 /\ (last.op = "process" /\ last.outcome.status = "ok")
                    => /\ last.outcome.value
                            = Label(NumeralValue(last.arg, fsm.alphabet) % n)
                       /\ (fsm.final_states = {Label(0)})
                          => (is_accepting(fsm)
                                <=> NumeralValue(last.arg, fsm.alphabet) % n = 0)
                 /\ (last.op = "is_accepting")
                    => last.outcome.value = is_accepting(fsm))

C17_Witness ==
    /\ held
    /\ Synthesized(fsm)
    /\ Cardinality(fsm.states) = 3
    /\ fsm.final_states = {Label(0)}
    /\ last.op = "process"
    /\ last.outcome.status = "ok"
    /\ Len(last.arg) >= 2
    /\ ~is_accepting(fsm)
    /\ NumeralValue(last.arg, fsm.alphabet) % 3 = 2

StaticFields(f) ==
    [states |-> f.states, alphabet |-> f.alphabet,
     initial_state |-> f.initial_state, final_states |-> f.final_states,
     transition_function |-> f.transition_function]

EvaluatorOps == {"reset", "transition", "process", "is_accepting"}

\* C18: the only field reset, transition and process change is
\* current_state (states, alphabet, initial_state, final_states and the
\* table stay as they are, in every step of a call, failed or not), and
\* is_accepting changes nothing at all and answers from the state as it is,
\* so the instance every later operation starts from is the same with or
\* without the is_accepting calls.
C18_OnlyCurrentStateChanges ==
    [][(held /\ held' /\ last'.op \in EvaluatorOps)
         => /\ StaticFields(fsm') = StaticFields(fsm)
            /\ (last'.op = "is_accepting" /\ pc = "idle")
               => /\ fsm' = fsm
                  /\ last'.outcome = Ok(is_accepting(fsm))
                  /\ UNCHANGED <<held, pc, op, seq, pos, cnt, results, args>>
                  /\ \A a \in CharUniverse :
                        transition(fsm', a) = transition(fsm, a)
                  /\ reset(fsm') = reset(fsm)]_vars

C18_Witness ==
    /\ held
    /\ last.op = "is_accepting"
    /\ last.outcome = Ok(TRUE)
    /\ fsm.current_state # fsm.initial_state
    /\ fsm.final_states # fsm.states
    /\ Cardinality(fsm.states) = 3

\* transition rejects the symbol a in the state st of f
Rejected(f, st, a) ==
    \/ a \notin f.alphabet
    \/ st \notin DOMAIN f.transition_function
    \/ a \notin DOMAIN f.transition_function[st]

\* the positions of s at which the symbol is rejected in the state the
\* symbols before it lead to, none of them having been rejected
RejectedAt(f, s) ==
    {i \in 1 .. Len(s) :
        /\ \A j \in 1 .. (i - 1) :
              ~Rejected(f, TableFold(f, SubSeq(s, 1, j - 1)), s[j])
        /\ Rejected(f, TableFold(f, SubSeq(s, 1, i - 1)), s[i])}

FailedProcess ==
    /\ held
    /\ pc = "idle"
    /\ last.op = "process"
    /\ last.outcome.status = "error"

\* the state the longest valid prefix of the failed input leads to
PrefixState ==
    LET k == CHOOSE i \in RejectedAt(fsm, last.arg) : TRUE
    IN  TableFold(fsm, SubSeq(last.arg, 1, k - 1))

\* C19: process(seq) fails at the first symbol of seq that transition
\* rejects (and succeeds if there is none); no later symbol is consumed and
\* current_state is left at the state the longest valid prefix leads to,
\* neither restored nor reset, so that a following is_accepting reports on
\* that prefix state.
C19_FailedProcessStopsAtPrefix ==
    /\ []((held /\ pc = "idle" /\ last.op = "process" /\ last.outcome.status = "ok")
            => RejectedAt(fsm, last.arg) = {})
    /\ [](FailedProcess
            => /\ RejectedAt(fsm, last.arg) # {}
               /\ LET k == CHOOSE i \in RejectedAt(fsm, last.arg) : TRUE
                  IN  /\ last.cnt.steps = k - 1
                      /\ last.cnt.resets = 1
                      /\ last.outcome
                           = Err(IF last.arg[k] \in fsm.alphabet
                                 THEN IncompleteTransition ELSE InvalidSymbol)
               /\ fsm.current_state = PrefixState
               /\ is_accepting(fsm) = (PrefixState \in fsm.final_states))
    /\ [][(FailedProcess /\ last'.op = "is_accepting")
            => last'.outcome = Ok(PrefixState \in fsm.final_states)]_vars

C19_Witness ==
    /\ FailedProcess
    /\ ~last.reused
    /\ Len(last.arg) = 3
    /\ last.cnt.steps = 1
    /\ fsm.current_state # fsm.initial_state
    /\ fsm.current_state \in fsm.final_states
    /\ fsm.initial_state \notin fsm.final_states

\* C20: mod_n_remainder_custom_alphabet checks in a fixed order: empty input,
\* then characters outside the alphabet, then n <= 0, then an empty alphabet
\* (the last two inside build_mod_n_fsm, in that order).  So it never fails
\* with EmptyAlphabet, a non-empty input over an empty alphabet fails with
\* InvalidCharacter, and InvalidModulus means a non-empty input entirely
\* over the alphabet.
C20_CheckOrder ==
    /\ (R("remainder").status # "none")
       => LET s == args.input_string
              A == args.alphabet
              o == R("remainder")
          IN  /\ o.error =
                    (IF s = <<>> THEN EmptyInput
                     ELSE IF \E k \in 1 .. Len(s) : s[k] \notin A THEN InvalidCharacter
                     ELSE IF args.n <= 0 THEN InvalidModulus
                     ELSE "")
              /\ o.error # EmptyAlphabet
              /\ (s # <<>> /\ A = {}) => o = Err(InvalidCharacter)
              /\ (o.error = InvalidModulus)
                 => (s # <<>> /\ \A k \in 1 .. Len(s) : s[k] \in A)
    /\ (R("build").status # "none" /\ args.n <= 0 /\ args.alphabet = {})
       => R("build") = Err(InvalidModulus)

C20_Witness ==
    /\ R("remainder") = Err(InvalidCharacter)
    /\ R("build") = Err(InvalidModulus)
    /\ Len(args.input_string) >= 2
    /\ args.alphabet = {}
    /\ args.n <= 0
====
